---- MODULE Spec2Model ----
(***************************************************************************)
(* Model of src/app.py: the Spotify playlist export backend.               *)
(*                                                                         *)
(* Text that the code inspects character by character (the url parameter,  *)
(* an album's release date) is a sequence of one-character strings; text   *)
(* that the code only copies or concatenates (names, tokens, bodies) is a  *)
(* string.  A Python value that may be None is NoneV or Some(v).           *)
(*                                                                         *)
(* Each request handler is a coroutine: it runs atomically from one await  *)
(* of an upstream call to the next, so there is one action per stretch of  *)
(* code between two suspension points.                                     *)
(***************************************************************************)
EXTENDS Integers, Sequences, FiniteSets, TLC

VARIABLES
    creds,      \* SPOTIFY_CLIENT_ID / SPOTIFY_CLIENT_SECRET, read at import
    cap,        \* the catalogue: the most pages it has of one playlist
    pc,         \* per request: where its coroutine is suspended
    inp,        \* per request: endpoint and query parameters
    pid,        \* per request: the handler's local pid
    bearer,     \* per request: the handler's local bearer
    url,        \* per request: fetch_playlist_tracks' local url
    rows,       \* per slot: fetch_playlist_tracks' rows list
    failed,     \* per request: the non-200 page response r kept across the probe
    calls,      \* per request: the upstream calls it has sent, in order
    resps,      \* per request: the upstream responses it has received, in order
    out,        \* per request: the HTTP response of the request
    arg,        \* unit harness: the argument of the pure function under test
    res,        \* unit harness: its result
    phase       \* unit harness: "url" | "date" (building arg) | "applied" | "off"

vars == <<creds, cap, pc, inp, pid, bearer, url, rows, failed, calls, resps, out,
          arg, res, phase>>
reqVars == <<creds, cap, pc, inp, pid, bearer, url, rows, failed, calls, resps, out>>
unitVars == <<arg, res, phase>>

\* ------------------------------------------------------------- bounds

MaxPages == 3
MaxConcPages == 2
MaxPieces == 4
MaxDateLen == 6

\* ------------------------------------------------------------- values

NoneV == [none |-> TRUE]
Some(v) == [val |-> v]
Min(a, b) == IF a <= b THEN a ELSE b

\* The character class [A-Za-z0-9] of both regular expressions.
Alnum ==
    { "a","b","c","d","e","f","g","h","i","j","k","l","m",
      "n","o","p","q","r","s","t","u","v","w","x","y","z",
      "A","B","C","D","E","F","G","H","I","J","K","L","M",
      "N","O","P","Q","R","S","T","U","V","W","X","Y","Z",
      "0","1","2","3","4","5","6","7","8","9" }

\* The literal prefix of the pattern r"playlist/([A-Za-z0-9]+)".
PlaylistSlash == <<"p","l","a","y","l","i","s","t","/">>

\* ------------------------------------------------- extract_playlist_id

\* re.fullmatch(r"[A-Za-z0-9]+", url)
FullMatchAlnum(s) == Len(s) > 0 /\ \A i \in 1..Len(s) : s[i] \in Alnum

\* The pattern matches at position i: the literal, then at least one [A-Za-z0-9].
MatchesAt(s, i) ==
    /\ i + Len(PlaylistSlash) <= Len(s)
    /\ SubSeq(s, i, i + Len(PlaylistSlash) - 1) = PlaylistSlash
    /\ s[i + Len(PlaylistSlash)] \in Alnum

\* re.search scans left to right and returns the first position that matches
\* (0: no match).
RECURSIVE SearchFrom(_, _)
SearchFrom(s, i) ==
    IF i > Len(s) THEN 0
    ELSE IF MatchesAt(s, i) THEN i
    ELSE SearchFrom(s, i + 1)

\* The + quantifier is greedy: the group runs to the last consecutive
\* [A-Za-z0-9] character.
RECURSIVE RunEnd(_, _)
RunEnd(s, j) ==
    IF j + 1 <= Len(s) /\ s[j + 1] \in Alnum THEN RunEnd(s, j + 1) ELSE j

\* m.group(1) of a match at position i
GroupOne(s, i) ==
    SubSeq(s, i + Len(PlaylistSlash), RunEnd(s, i + Len(PlaylistSlash)))

\* Variant: re.match in place of re.search (the pattern anchored at the start).
SearchAnchored(s) == IF MatchesAt(s, 1) THEN 1 ELSE 0
\* re.search(r"playlist/([A-Za-z0-9]+)", url): the start of the match, or 0
Search(s) == SearchFrom(s, 1)

\* Variant: the input itself in place of None when nothing matches.
ExtractOrEcho(u) ==
    IF FullMatchAlnum(u) THEN Some(u)
    ELSE IF Search(u) # 0 THEN Some(GroupOne(u, Search(u))) ELSE Some(u)
extract_playlist_id(u) ==
    IF FullMatchAlnum(u) THEN Some(u)
    ELSE IF Search(u) # 0 THEN Some(GroupOne(u, Search(u))) ELSE NoneV

\* ------------------------------------------- upstream JSON documents

\* The value of a key of a JSON object: Absent (the object has no such key, so
\* dict.get yields its default), NoneV (the key is there with the value null) or
\* Some(v).
Absent == [absent |-> TRUE]

\* dict.get(key, default)
Get(v, default) == IF v = Absent THEN default ELSE v

\* (x or default) for a sequence-valued x: None and the empty sequence are falsy.
OrElse(v, default) == IF v = NoneV \/ v = Some(<<>>) THEN default ELSE v.val

\* The track objects the catalogue serves.  name stands for the track's name
\* string, which names the playlist entry it is: playlist, page offset, index.
TrackName(p, off, k) == <<p, off, k>>
TrackLink == "https://open.spotify.com/track/x"
FullTrack(p, off, k, rd) ==
    [type |-> Some("track"), name |-> Some(TrackName(p, off, k)),
     artists |-> Some(<<[name |-> Some("A")], [name |-> Some("B")]>>),
     album |-> Some([release_date |-> rd]),
     external_urls |-> Some([spotify |-> Some(TrackLink)])]
\* A track object with only its type marker: every other key is missing.
BareTrack ==
    [type |-> Some("track"), name |-> Absent, artists |-> Absent,
     album |-> Absent, external_urls |-> Absent]
Episode(p, off, k) ==
    [type |-> Some("episode"), name |-> Some(TrackName(p, off, k)),
     artists |-> NoneV, album |-> Absent,
     external_urls |-> Some([spotify |-> Absent])]
\* {}
EmptyObject ==
    [type |-> Absent, name |-> Absent, artists |-> Absent, album |-> Absent,
     external_urls |-> Absent]

Date1994 == <<"1","9","9","4","-","0","3","-","0","1">>
Date2001 == <<"2","0","0","1">>

\* The playlist entry at index k of the page at offset off of playlist p.
Item(shape, p, off, k) ==
    CASE shape = "full"     -> [track |-> Some(FullTrack(p, off, k, Some(Date1994)))]
      [] shape = "yearonly" -> [track |-> Some(FullTrack(p, off, k, Some(Date2001)))]
      [] shape = "undated"  -> [track |-> Some(FullTrack(p, off, k, NoneV))]
      [] shape = "bare"     -> [track |-> Some(BareTrack)]
      [] shape = "episode"  -> [track |-> Some(Episode(p, off, k))]
      [] shape = "null"     -> [track |-> NoneV]
      [] shape = "empty"    -> [track |-> Some(EmptyObject)]
      [] OTHER              -> [track |-> Absent]

\* ---------------------------------------------------- record normalizer

\* ", ".join(names)
RECURSIVE JoinNames(_)
JoinNames(names) ==
    IF names = <<>> THEN ""
    ELSE IF Len(names) = 1 THEN names[1]
    ELSE names[1] \o ", " \o JoinNames(Tail(names))

RECURSIVE UpToDash(_)
UpToDash(s) ==
    IF s = <<>> \/ Head(s) = "-" THEN <<>> ELSE <<Head(s)>> \o UpToDash(Tail(s))
\* Variant: s.split('-')[0] in place of the slice.
YearBeforeDash(s) == UpToDash(s)
\* s[:4]
YearPrefix(s) == SubSeq(s, 1, Min(4, Len(s)))

\* Variant: the type marker is not looked at.
SkipsNullOnly(it) == Get(it.track, NoneV) = NoneV
\* t = it.get("track"); if not t or t.get("type") != "track": continue
Skips(it) ==
    LET t == Get(it.track, NoneV) IN
    \/ t = NoneV
    \/ t = Some(EmptyObject)
    \/ Get(t.val.type, NoneV) # Some("track")

\* The row the loop body appends for an item it does not skip.
RowOf(it) ==
    LET t  == it.track.val
        as == OrElse(Get(t.artists, NoneV), <<>>)
        al == Get(t.album, Some([release_date |-> Absent])).val
        eu == Get(t.external_urls, Some([spotify |-> Absent])).val
    IN [Artist |-> JoinNames([i \in 1..Len(as) |-> Get(as[i].name, Some("")).val]),
        Year   |-> YearPrefix(OrElse(Get(al.release_date, NoneV), <<>>)),
        Title  |-> Get(t.name, Some(<<>>)).val,
        Link   |-> Get(eu.spotify, Some("")).val]

\* Variant: a loop that skips an item only for a null, missing or empty track.
AppendItemsNullOnly(acc, items) ==
    acc \o SelectSeq([i \in 1..Len(items) |->
                        IF SkipsNullOnly(items[i]) \/ items[i].track = Some(EmptyObject)
                        THEN NoneV ELSE RowOf(items[i])],
                     LAMBDA x : x # NoneV)
\* for it in data.get("items", []): ...; rows.append({...})
RECURSIVE AppendItems(_, _)
AppendItems(acc, items) ==
    IF items = <<>> THEN acc
    ELSE AppendItems(IF Skips(Head(items)) THEN acc
                     ELSE Append(acc, RowOf(Head(items))),
                     Tail(items))

\* ------------------------------------------------------------ renderers

CsvHeader == <<[q |-> "Artist"], [q |-> <<"Y","e","a","r">>], [q |-> <<"Title">>],
               [q |-> "Link"]>>
\* csv.writer(out, quoting=csv.QUOTE_ALL): a header line, then one line per row,
\* every field quoted.
rows_to_csv(rs) ==
    <<CsvHeader>> \o
    [i \in 1..Len(rs) |-> <<[q |-> rs[i].Artist], [q |-> rs[i].Year],
                            [q |-> rs[i].Title], [q |-> rs[i].Link]>>]

\* JSONResponse({"count": len(rows), "rows": rows})
JsonResponse(rs) ==
    [status |-> 200, kind |-> "json", body |-> [count |-> Len(rs), rows |-> rs]]
\* StreamingResponse(io.StringIO(csv_text), media_type="text/csv", ...)
CsvResponse(rs) ==
    [status |-> 200, kind |-> "csv", body |-> rows_to_csv(rs)]
Render(endpoint, rs) ==
    IF endpoint = "json" THEN JsonResponse(rs) ELSE CsvResponse(rs)

\* raise HTTPException(status_code=st, detail=d)
HTTPException(st, d) == [status |-> st, kind |-> "error", detail |-> d]
\* An exception that is no HTTPException leaves the handler: the server answers
\* 500.
Unhandled(what) == [status |-> 500, kind |-> "error", detail |-> [unhandled |-> what]]

\* ------------------------------------------------------------- requests

Reqs == {1, 2}

PageLimit == 100

\* The url parameters the requests are made with.
BareId == <<"a","1">>
PlaylistUrl == <<"o","/">> \o PlaylistSlash \o <<"b","2","?","s","=","x">>
AlbumUrl == <<"o","/","a","l","b","u","m","/","c","3">>
NoIdUrl == <<"o","/">> \o PlaylistSlash \o <<"?","s">>
Urls == {BareId, PlaylistUrl, AlbumUrl, NoIdUrl, <<>>}

Inputs ==
    [endpoint : {"json", "csv"}, url : Urls, market : {"", "DE"},
     token : {"", "user-token"}]
\* The inputs of two requests that run side by side.
ConcInputs(r) ==
    IF r = 1
    THEN [endpoint : {"json"}, url : {BareId}, market : {""},
          token : {"user-token"}]
    ELSE [endpoint : {"json", "csv"}, url : {PlaylistUrl}, market : {"DE"},
          token : {"", "other-token"}]
IdleInput == [endpoint |-> "json", url |-> <<>>, market |-> "", token |-> ""]

\* os.getenv(...): "" stands for a variable that is unset or empty, both falsy.
CredValues == [id : {"", "cid"}, secret : {"", "sec"}]

\* ------------------------------------------------------------- upstream

TokenUrl == [ep |-> "token"]
\* f"https://api.spotify.com/v1/playlists/{playlist_id}"
MetaUrl(p) == [ep |-> "playlist", pid |-> p]
\* base, then base + f"&market={market}" when market is not empty
FirstUrl(p, market) ==
    [ep |-> "tracks", pid |-> p, limit |-> PageLimit, offset |-> 0,
     market |-> market, srv |-> FALSE]
\* The link the catalogue puts into a page's "next": the following page of the
\* same playlist, in the catalogue's own spelling (srv).
ServerNext(u) ==
    [ep |-> "tracks", pid |-> u.pid, limit |-> u.limit,
     offset |-> u.offset + u.limit, market |-> u.market, srv |-> TRUE]

\* headers={"Authorization": f"Basic {creds}", ...}: creds is the base64 text of
\* "id:secret".
BasicAuth(c) == [scheme |-> "Basic", cred |-> [b64 |-> <<c.id, ":", c.secret>>]]
\* headers = {"Authorization": f"Bearer {bearer_token}"}
BearerAuth(tok) == [scheme |-> "Bearer", cred |-> tok]

AppToken == "app-token"
TokenResponses ==
    { [status |-> 200, access_token |-> Some(AppToken), body |-> "token"],
      [status |-> 200, access_token |-> Absent, body |-> "{}"],
      [status |-> 400, access_token |-> Absent, body |-> "invalid_client"] }

PageShapes ==
    { <<>>, <<"full", "null", "bare">>, <<"episode", "yearonly">>,
      <<"absent", "empty", "undated">> }
FailStatuses == {401, 404, 500}
ProbeStatuses == {200, 404}

ErrorBody(u, st) == [error |-> st, at |-> u]
\* What the catalogue may answer to a GET of the tracks page u.  It has at most
\* cap pages of a playlist.
PageResponses(u) ==
    { [status |-> 200,
       items |-> Some([k \in 1..Len(sh) |-> Item(sh[k], u.pid, u.offset, k)]),
       next |-> n, body |-> "page"] :
        sh \in PageShapes,
        n \in {NoneV} \cup (IF (u.offset \div u.limit) + 1 < cap
                            THEN {Some(ServerNext(u))} ELSE {}) }
    \cup
    { [status |-> st, items |-> Absent, next |-> Absent, body |-> ErrorBody(u, st)] :
        st \in FailStatuses }
ProbeResponses(p) ==
    { [status |-> st, body |-> [meta |-> p, st |-> st]] : st \in ProbeStatuses }


\* -------------------------------------------------------------- handlers

\* Variant: the exchange is made whether or not the caller sent a token.
AlwaysAppToken(tok) == TRUE
\* bearer = token if token else await get_app_token(): the else branch is taken
NeedsAppToken(tok) == tok = ""

\* Variant: 'and' in place of 'or'.
BothCredsMissing(c) == c.id = "" /\ c.secret = ""
\* if not SPOTIFY_CLIENT_ID or not SPOTIFY_CLIENT_SECRET
CredsMissing(c) == c.id = "" \/ c.secret = ""

\* Variant: rows as one module-level list.
SharedSlot(r) == 1
\* rows is a local of each call of fetch_playlist_tracks: one list per request.
Slot(r) == r

\* Variant: only a server error aborts the fetch.
Raises5xxOnly(resp) == resp.status >= 500
\* if r.status_code != 200
PageFails(resp) == resp.status # 200

\* Variant: every upstream failure reported as 502.
AlwaysBadGateway(resp) == 502
\* raise HTTPException(status_code=r.status_code, ...)
PageErrorStatus(resp) == resp.status

\* Variant: the "next" link is not read.
NeverFollows(data) == NoneV
\* url = data.get("next")
NextUrl(data) == Get(data.next, NoneV)

Send(r, u, auth) == [calls EXCEPT ![r] = Append(@, [url |-> u, auth |-> auth])]
Receive(r, resp) == [resps EXCEPT ![r] = Append(@, resp)]

\* The first stretch of fetch_playlist_tracks(p, b, market): its locals are set
\* and the first page is requested.
EnterFetch(r, p, b) ==
    /\ bearer' = [bearer EXCEPT ![r] = Some(b)]
    /\ url' = [url EXCEPT ![r] = Some(FirstUrl(p, inp[r].market))]
    /\ rows' = [rows EXCEPT ![Slot(r)] = <<>>]
    /\ calls' = Send(r, FirstUrl(p, inp[r].market), BearerAuth(b))
    /\ pc' = [pc EXCEPT ![r] = "await_page"]
    /\ UNCHANGED <<failed, out>>

\* The handler fails with response e before it has a bearer token.
FailEarly(r, e) ==
    /\ out' = [out EXCEPT ![r] = e]
    /\ pc' = [pc EXCEPT ![r] = "done"]
    /\ UNCHANGED <<bearer, url, rows, failed>>

\* api_playlist_json / api_playlist_csv up to their first suspension: the id is
\* extracted, the bearer token chosen, and either the handler fails, or the
\* token request or the first page request is sent.
Start(r) ==
    /\ pc[r] = "new"
    /\ LET p == extract_playlist_id(inp[r].url) IN
       /\ pid' = [pid EXCEPT ![r] = p]
       /\ IF p = NoneV
          THEN /\ FailEarly(r, HTTPException(400, "Ungueltige Playlist-URL oder ID"))
               /\ UNCHANGED calls
          ELSE IF ~NeedsAppToken(inp[r].token)
          THEN EnterFetch(r, p.val, inp[r].token)
          ELSE IF CredsMissing(creds)
          THEN /\ FailEarly(r, HTTPException(500, "Spotify Credentials fehlen (Env Vars)."))
               /\ UNCHANGED calls
          ELSE /\ calls' = Send(r, TokenUrl, BasicAuth(creds))
               /\ pc' = [pc EXCEPT ![r] = "await_token"]
               /\ UNCHANGED <<bearer, url, rows, failed, out>>
    /\ UNCHANGED <<creds, cap, inp, resps, unitVars>>

\* get_app_token resumes with the token endpoint's answer; on success the
\* handler goes on into fetch_playlist_tracks up to its first page request.
TokenResponse(r) ==
    /\ pc[r] = "await_token"
    /\ \E resp \in TokenResponses :
        /\ resps' = Receive(r, resp)
        /\ IF resp.status # 200
           THEN /\ FailEarly(r, HTTPException(502, [prefix |-> "Token-Fehler: ",
                                                     text |-> resp.body]))
                /\ UNCHANGED calls
           ELSE IF resp.access_token = Absent
           THEN /\ FailEarly(r, Unhandled("KeyError: access_token"))
                /\ UNCHANGED calls
           ELSE EnterFetch(r, pid[r].val, resp.access_token.val)
    /\ UNCHANGED <<creds, cap, inp, pid, unitVars>>

\* fetch_playlist_tracks resumes with a page: a non-200 page makes it probe the
\* playlist's metadata; a 200 page is normalized into rows, and then either the
\* next page is requested or the handler renders the rows and returns.
PageResponse(r) ==
    /\ pc[r] = "await_page"
    /\ \E resp \in PageResponses(url[r].val) :
        /\ resps' = Receive(r, resp)
        /\ IF PageFails(resp)
           THEN /\ failed' = [failed EXCEPT ![r] = Some(resp)]
                /\ calls' = Send(r, MetaUrl(pid[r].val), BearerAuth(bearer[r].val))
                /\ pc' = [pc EXCEPT ![r] = "await_probe"]
                /\ UNCHANGED <<url, rows, out>>
           ELSE LET rs == AppendItems(rows[Slot(r)], Get(resp.items, Some(<<>>)).val)
                    nx == NextUrl(resp)
                IN /\ rows' = [rows EXCEPT ![Slot(r)] = rs]
                   /\ url' = [url EXCEPT ![r] = nx]
                   /\ UNCHANGED failed
                   /\ IF nx # NoneV
                      THEN /\ calls' = Send(r, nx.val, BearerAuth(bearer[r].val))
                           /\ UNCHANGED <<pc, out>>
                      ELSE /\ out' = [out EXCEPT ![r] = Render(inp[r].endpoint, rs)]
                           /\ pc' = [pc EXCEPT ![r] = "done"]
                           /\ UNCHANGED calls
    /\ UNCHANGED <<creds, cap, inp, pid, bearer, unitVars>>

\* fetch_playlist_tracks resumes with the probe's answer and raises.
ProbeResponse(r) ==
    /\ pc[r] = "await_probe"
    /\ \E probe \in ProbeResponses(pid[r].val) :
        /\ resps' = Receive(r, probe)
        /\ out' = [out EXCEPT ![r] =
               HTTPException(PageErrorStatus(failed[r].val),
                             [prefix |-> "Spotify API: ", text |-> failed[r].val.body,
                              probe_status |-> probe.status,
                              probe_body |-> probe.body])]
    /\ pc' = [pc EXCEPT ![r] = "done"]
    /\ UNCHANGED <<creds, cap, inp, pid, bearer, url, rows, failed, calls, unitVars>>

\* ------------------------------------------------------- specifications

UnitOff == arg = NoneV /\ res = NoneV /\ phase = "off"

InitCommon ==
    /\ pid = [r \in Reqs |-> NoneV]
    /\ bearer = [r \in Reqs |-> NoneV]
    /\ url = [r \in Reqs |-> NoneV]
    /\ rows = [r \in Reqs |-> <<>>]
    /\ failed = [r \in Reqs |-> NoneV]
    /\ calls = [r \in Reqs |-> <<>>]
    /\ resps = [r \in Reqs |-> <<>>]
    /\ out = [r \in Reqs |-> NoneV]

\* One request, with any parameters and any configuration.
Init ==
    /\ creds \in CredValues
    /\ cap = MaxPages
    /\ pc = [r \in Reqs |-> IF r = 1 THEN "new" ELSE "off"]
    /\ inp \in [Reqs -> Inputs]
    /\ inp[2] = IdleInput
    /\ InitCommon
    /\ UnitOff

Next == \E r \in Reqs : Start(r) \/ TokenResponse(r) \/ PageResponse(r) \/ ProbeResponse(r)

Spec == Init /\ [][Next]_vars

\* Two requests in flight at once, for different playlists with different
\* tokens.
InitConc ==
    /\ creds = [id |-> "cid", secret |-> "sec"]
    /\ cap = MaxConcPages
    /\ pc = [r \in Reqs |-> "new"]
    /\ inp \in [Reqs -> ConcInputs(1) \cup ConcInputs(2)]
    /\ \A r \in Reqs : inp[r] \in ConcInputs(r)
    /\ InitCommon
    /\ UnitOff

SpecConc == InitConc /\ [][Next]_vars


\* ---------------------------------------------------- function harnesses

\* The pieces the url arguments of extract_playlist_id are put together from.
Pieces ==
    { PlaylistSlash, <<"a">>, <<"Z","9">>, <<"/">>, <<"?","x">>,
      <<"p","l","a","y","l","i","s","t">> }
\* The characters the release dates are put together from.
DateChars == {"1", "9", "-"}

RECURSIVE Flatten(_)
Flatten(ps) == IF ps = <<>> THEN <<>> ELSE Head(ps) \o Flatten(Tail(ps))

RequestsOff ==
    /\ creds = [id |-> "cid", secret |-> "sec"]
    /\ cap = MaxPages
    /\ pc = [r \in Reqs |-> "off"]
    /\ inp = [r \in Reqs |-> IdleInput]
    /\ InitCommon

\* extract_playlist_id on every url of at most MaxPieces pieces.
InitExtract == RequestsOff /\ arg = <<>> /\ res = NoneV /\ phase = "url"

ExtendUrl ==
    /\ phase = "url"
    /\ Len(arg) < MaxPieces
    /\ \E p \in Pieces : arg' = Append(arg, p)
    /\ UNCHANGED <<res, phase, reqVars>>

ApplyExtract ==
    /\ phase = "url"
    /\ res' = extract_playlist_id(Flatten(arg))
    /\ phase' = "applied"
    /\ UNCHANGED <<arg, reqVars>>

NextExtract == ExtendUrl \/ ApplyExtract

SpecExtract == InitExtract /\ [][NextExtract]_vars

\* The normalizer on a track whose album has any release date of at most
\* MaxDateLen characters, a null one, or none.
InitNorm ==
    /\ RequestsOff
    /\ arg \in {Absent, NoneV, Some(<<>>)}
    /\ res = NoneV
    /\ phase = "date"

ExtendDate ==
    /\ phase = "date"
    /\ arg \notin {Absent, NoneV}
    /\ Len(arg.val) < MaxDateLen
    /\ \E c \in DateChars : arg' = Some(Append(arg.val, c))
    /\ UNCHANGED <<res, phase, reqVars>>

\* The item under test: the first entry of the first page of playlist BareId.
DatedItem(rd) == [track |-> Some(FullTrack(BareId, 0, 1, rd))]

ApplyNormalize ==
    /\ phase = "date"
    /\ res' = AppendItems(<<>>, <<DatedItem(arg)>>)
    /\ phase' = "applied"
    /\ UNCHANGED <<arg, reqVars>>

NextNorm == ExtendDate \/ ApplyNormalize

SpecNorm == InitNorm /\ [][NextNorm]_vars


\* ------------------------------------------------------------ properties

\* What the properties say about a url, a request's upstream traffic and its
\* result, stated without the operators of the handlers.

\* s[i..] starts with "playlist/" followed by an alphanumeric character.
SegmentAt(s, i) ==
    /\ i + 9 <= Len(s)
    /\ \A k \in 1..9 : s[i + k - 1] = PlaylistSlash[k]
    /\ s[i + 9] \in Alnum
SegmentStarts(s) == {i \in 1..Len(s) : SegmentAt(s, i)}
\* The <id> of the segment at i: the whole run of alphanumerics after the slash.
IdAt(s, i) ==
    LET e == CHOOSE e \in (i + 9)..Len(s) :
                 /\ \A k \in (i + 9)..e : s[k] \in Alnum
                 /\ (e = Len(s) \/ s[e + 1] \notin Alnum)
    IN [k \in 1..(e - i - 8) |-> s[i + 8 + k]]
IsBareId(s) == s # <<>> /\ \A i \in 1..Len(s) : s[i] \in Alnum
Recognized(s) == IsBareId(s) \/ SegmentStarts(s) # {}
Leftmost(S) == CHOOSE i \in S : \A j \in S : i <= j

\* The upstream calls of request r with their answers (NoneV: not yet answered).
Exchanges(r) ==
    [i \in 1..Len(calls[r]) |->
        [call |-> calls[r][i],
         resp |-> IF i <= Len(resps[r]) THEN Some(resps[r][i]) ELSE NoneV]]
PageExchanges(r) == SelectSeq(Exchanges(r), LAMBDA e : e.call.url.ep = "tracks")
Answered(e) == e.resp # NoneV
FailedPage(e) == Answered(e) /\ e.resp.val.status # 200

\* The items of the 200 pages request r has received, in arrival order.
RECURSIVE ItemsOf(_)
ItemsOf(px) ==
    IF px = <<>> THEN <<>>
    ELSE (IF Answered(Head(px)) /\ Head(px).resp.val.status = 200
             /\ Head(px).resp.val.items # Absent
          THEN Head(px).resp.val.items.val ELSE <<>>) \o ItemsOf(Tail(px))
IsTrackItem(it) ==
    /\ it.track \notin {Absent, NoneV}
    /\ it.track.val.type = Some("track")
TrackItems(r) == SelectSeq(ItemsOf(PageExchanges(r)), IsTrackItem)
ExpectedRows(r) == [i \in 1..Len(TrackItems(r)) |-> RowOf(TrackItems(r)[i])]

Done(r) == pc[r] = "done"
Succeeded(r) == Done(r) /\ out[r].kind \in {"json", "csv"}
Failed(r) == Done(r) /\ out[r].kind = "error"
\* The rows the caller gets: of the JSON body, or read back from the CSV lines.
ResultRows(r) ==
    IF out[r].kind = "json" THEN out[r].body.rows
    ELSE [i \in 1..(Len(out[r].body) - 1) |->
            [Artist |-> out[r].body[i + 1][1].q, Year |-> out[r].body[i + 1][2].q,
             Title |-> out[r].body[i + 1][3].q, Link |-> out[r].body[i + 1][4].q]]

\* C1: while every page answers 200, the pages are requested one at a time in
\* chain order (first limit=100&offset=0, then each page's "next" verbatim), the
\* rows are the records of all pages in arrival order, and the fetch stops and
\* returns as soon as a page has no "next".
PaginationFollowsChain ==
    \A r \in Reqs :
        LET px == PageExchanges(r) IN
        (\A i \in 1..Len(px) : ~FailedPage(px[i])) =>
            /\ Len(calls[r]) <= Len(resps[r]) + 1
            /\ \A i \in 1..Len(px) : i < Len(px) => Answered(px[i])
            /\ Len(px) > 0 =>
                /\ px[1].call.url.pid = pid[r].val
                /\ px[1].call.url.limit = 100
                /\ px[1].call.url.offset = 0
                /\ px[1].call.url.market = inp[r].market
            /\ \A i \in 2..Len(px) : px[i - 1].resp.val.next = Some(px[i].call.url)
            /\ \A i \in 1..Len(px) :
                 (Answered(px[i]) /\ px[i].resp.val.next = NoneV) =>
                    /\ i = Len(px)
                    /\ calls[r][Len(calls[r])] = px[i].call
                    /\ Succeeded(r)
            /\ \A i \in 1..Len(px) :
                 (Answered(px[i]) /\ px[i].resp.val.next # NoneV) => i < Len(px)
            /\ rows[r] = ExpectedRows(r)
            /\ Succeeded(r) =>
                /\ ResultRows(r) = ExpectedRows(r)
                /\ px[Len(px)].resp.val.next = NoneV
\* A request that walked a chain of three pages and returned their rows.
PaginationWitness ==
    \E r \in Reqs :
        /\ Succeeded(r)
        /\ Len(PageExchanges(r)) = 3
        /\ \A i \in 1..3 : Len(PageExchanges(r)[i].resp.val.items.val) > 0
        /\ Len(ResultRows(r)) >= 3

SuppliedTokenUsedVerbatim ==
    \A r \in Reqs :
        inp[r].token # "" =>
            \A i \in 1..Len(calls[r]) :
                /\ calls[r][i].url.ep # "token"
                /\ calls[r][i].url.ep = "tracks" =>
                     calls[r][i].auth = [scheme |-> "Bearer", cred |-> inp[r].token]
\* A request with its own token, finished after several page requests, while
\* the application has credentials of its own.
SuppliedTokenWitness ==
    \E r \in Reqs :
        /\ inp[r].token # ""
        /\ creds.id # "" /\ creds.secret # ""
        /\ Succeeded(r)
        /\ Len(PageExchanges(r)) >= 2

MissingCreds == creds.id = "" \/ creds.secret = ""

\* C4 as claimed: with the client id or secret not configured and no override
\* token, the request fails with status 500 and makes no network call.
MissingCredsAlways500 ==
    \A r \in Reqs :
        (MissingCreds /\ inp[r].token = "" /\ pc[r] \notin {"new", "off"}) =>
            /\ Failed(r)
            /\ out[r].status = 500
            /\ calls[r] = <<>>
\* C4 as amended: with the client id or secret not configured, no override
\* token and a recognized identifier, the request fails with status 500 and
\* makes no network call.
MissingCredsFail500 ==
    \A r \in Reqs :
        (MissingCreds /\ inp[r].token = "" /\ Recognized(inp[r].url)
           /\ pc[r] \notin {"new", "off"}) =>
            /\ Failed(r)
            /\ out[r].status = 500
            /\ calls[r] = <<>>
\* A request for a recognized playlist that failed because only the secret is
\* missing.
MissingCredsWitness ==
    \E r \in Reqs :
        /\ creds.id # "" /\ creds.secret = ""
        /\ inp[r].token = ""
        /\ Recognized(inp[r].url)
        /\ Failed(r)

\* C5: a url that is neither a bare alphanumeric id nor contains a
\* playlist/<id> segment is rejected with 400 before any network call, whatever
\* token, market and credentials are.
UnrecognizedRejected ==
    \A r \in Reqs :
        (~Recognized(inp[r].url) /\ pc[r] \notin {"new", "off"}) =>
            /\ Failed(r)
            /\ out[r].status = 400
            /\ calls[r] = <<>>
\* A rejected request that had a token of its own and a market.
UnrecognizedWitness ==
    \E r \in Reqs :
        /\ inp[r].url = NoIdUrl
        /\ inp[r].token # ""
        /\ inp[r].market # ""
        /\ ~MissingCreds
        /\ Failed(r)


\* How a failed request failed, read off its url, its configuration and its
\* upstream traffic.
TokenExchanged(r) == Len(resps[r]) >= 1 /\ calls[r][1].url.ep = "token"
TokenRejected(r) == TokenExchanged(r) /\ resps[r][1].status # 200
TokenMalformed(r) ==
    TokenExchanged(r) /\ resps[r][1].status = 200 /\ resps[r][1].access_token = Absent
PageFailure(r) == \E i \in 1..Len(PageExchanges(r)) : FailedPage(PageExchanges(r)[i])
FailedPageStatus(r) ==
    LET px == PageExchanges(r)
        i  == CHOOSE i \in 1..Len(px) : FailedPage(px[i])
    IN px[i].resp.val.status

ArgUrl == Flatten(arg)

\* C7 as claimed: for every substring playlist/<id> of the input, extraction
\* returns <id>.
ExtractsEverySegment ==
    phase = "applied" =>
        \A i \in SegmentStarts(ArgUrl) : res = Some(IdAt(ArgUrl, i))
\* C7 as amended: for an input with a substring playlist/<id>, extraction
\* returns the <id> of the leftmost such substring (the whole alphanumeric run
\* after its slash), regardless of the characters around it.
ExtractsLeftmostSegment ==
    (phase = "applied" /\ SegmentStarts(ArgUrl) # {}) =>
        res = Some(IdAt(ArgUrl, Leftmost(SegmentStarts(ArgUrl))))
\* An input with text before the segment and after its id.
ExtractWitness ==
    /\ phase = "applied"
    /\ SegmentStarts(ArgUrl) = {2}
    /\ Len(IdAt(ArgUrl, 2)) = 2
    /\ Len(ArgUrl) > 13
    /\ res = Some(<<"Z", "9">>)

\* C8: a successful request returns exactly the normalized records of the
\* items whose track is present with type "track", one per item in playlist
\* order, and the JSON count is the number of rows.
RowsAreTrackItems ==
    \A r \in Reqs :
        Succeeded(r) =>
            /\ ResultRows(r) = ExpectedRows(r)
            /\ out[r].kind = "json" => out[r].body.count = Len(out[r].body.rows)
\* A JSON result over pages that held tracks, a null track, an episode, an
\* empty object and an item with no track.
RowsWitness ==
    \E r \in Reqs :
        /\ Succeeded(r)
        /\ out[r].kind = "json"
        /\ out[r].body.count >= 3
        /\ \E i, j, k \in 1..Len(ItemsOf(PageExchanges(r))) :
              LET its == ItemsOf(PageExchanges(r)) IN
              /\ its[i].track = NoneV
              /\ its[j].track = Absent
              /\ its[k].track \notin {NoneV, Absent}
              /\ its[k].track.val.type = Some("episode")

\* The release date the harness has built ("" when there is none).
ArgDate == IF arg \in {Absent, NoneV} THEN <<>> ELSE arg.val
FirstFour(d) == [i \in 1..(IF Len(d) < 4 THEN Len(d) ELSE 4) |-> d[i]]

\* C9 as claimed: for any release date, Year is empty or exactly 4 characters
\* long and equals the part of the date before its first '-'.
YearIsPartBeforeDash ==
    phase = "applied" =>
        /\ Len(res) = 1
        /\ res[1].Year = <<>> \/ Len(res[1].Year) = 4
        /\ res[1].Year = UpToDash(ArgDate)
\* C9 as amended: Year is the first 4 characters of the release date (the whole
\* date when it is shorter, empty when it is absent); it is exactly 4
\* characters long when the date has at least 4, and it equals the part before
\* the first '-' when that part is exactly 4 characters long.
YearIsFirstFour ==
    phase = "applied" =>
        /\ Len(res) = 1
        /\ res[1].Year = FirstFour(ArgDate)
        /\ Len(ArgDate) >= 4 => Len(res[1].Year) = 4
        /\ arg \in {Absent, NoneV} => res[1].Year = <<>>
        /\ Len(UpToDash(ArgDate)) = 4 => res[1].Year = UpToDash(ArgDate)
\* A record made from a release date of 3 characters.
YearWitness ==
    /\ phase = "applied"
    /\ arg = Some(<<"1", "9", "9">>)
    /\ res[1].Year = <<"1", "9", "9">>

\* The bearer token request r works with: its own, or the one it was issued.
OwnBearer(r) ==
    IF inp[r].token # "" THEN inp[r].token ELSE resps[r][1].access_token.val
\* r1 comes before r2 in the playlist: smaller offset, or same page and smaller
\* index.
Before(t1, t2) == t1[2] < t2[2] \/ (t1[2] = t2[2] /\ t1[3] < t2[3])

\* C10: under any interleaving of two requests, each one's rows are those of
\* the pages it received itself, all of its own playlist and in that playlist's
\* order, every call it makes names its own playlist and carries its own bearer
\* token, and its accumulated state is a function of its own answers alone.
RequestsIndependent ==
    \A r \in Reqs :
        /\ rows[r] = (IF bearer[r] = NoneV THEN <<>> ELSE ExpectedRows(r))
        /\ Succeeded(r) => ResultRows(r) = ExpectedRows(r)
        /\ \A i \in 1..Len(rows[r]) :
              rows[r][i].Title # <<>> => rows[r][i].Title[1] = pid[r].val
        /\ \A i, j \in 1..Len(rows[r]) :
              (i < j /\ rows[r][i].Title # <<>> /\ rows[r][j].Title # <<>>) =>
                  Before(rows[r][i].Title, rows[r][j].Title)
        /\ \A i \in 1..Len(calls[r]) :
              calls[r][i].url.ep # "token" =>
                  /\ calls[r][i].url.pid = pid[r].val
                  /\ calls[r][i].auth = [scheme |-> "Bearer", cred |-> OwnBearer(r)]
\* Both requests are between two pages of their fetch, each with rows of its
\* own, one with the caller's token and one with the application's.
IndependentWitness ==
    /\ \A r \in Reqs : pc[r] = "await_page" /\ Len(rows[r]) >= 2
    /\ \A r \in Reqs : Len(PageExchanges(r)) = 2
    /\ bearer[1] # bearer[2]
    /\ pid[1] # pid[2]
    /\ inp[2].token = ""


====
